---- MODULE Spec2Model ----
(***************************************************************************)
(* Model of app/javascript/utils/request.ts: the `request` function, its   *)
(* attempt loop, the per-attempt timeout timer and abort listener, the     *)
(* fetch transport it awaits, and the process-wide counter                 *)
(* globalThis.__activeRequests.                                            *)
(*                                                                         *)
(* Each call runs as a sequence of synchronous segments separated by its   *)
(* two suspension points (await fetch, await sleep).  One action models    *)
(* one synchronous segment.  The environment (transport, timers, the       *)
(* owner of the external AbortSignal) acts between the segments.  Timer    *)
(* durations are abstracted: a pending timer may fire at any moment until  *)
(* it is cleared.  Backoff durations are recorded as computed.             *)
(*                                                                         *)
(* Spec:     NumCalls calls, every method, with and without a signal.      *)
(* SpecPrep: one call, every accept, payload and value of defaults.headers.*)
(* SpecLive: SpecPrep with the fairness of the event loop.                 *)
(* SpecConc: NumConc calls in flight together.                             *)
(***************************************************************************)
EXTENDS Integers, Sequences, FiniteSets

\* ---- bounds ----
NumCalls == 1

Calls == 1..NumCalls

\* Number of calls in the specification of concurrent calls.
NumConc == 2

ConcCalls == 1..NumConc

\* ---- program constants ----
Methods == {"GET", "POST", "PUT", "PATCH", "DELETE"}

GenericMessage == "Something went wrong."

RateLimitMessage == "Something went wrong, please try again after some time."

AbortMessage == "Request aborted"

TimeoutMessage == "Request timed out"

\* Statuses a transport response may carry: success, client error, rate
\* limit, and the two sides of the >= 500 boundary.
Statuses == {200, 404, 429, 500, 503}

VARIABLES
  __activeRequests,  \* globalThis.__activeRequests
  pc,                \* per call: "idle", "fetching", "sleeping", "done"
  settings,          \* per call: the RequestSettings it was called with
  attempt,           \* per call: the loop variable `attempt`
  userAborted,       \* per call: settings.abortSignal.aborted
  listeners,         \* per call: attempts whose onUserAbort is registered
  timers,            \* per call: attempts whose timeout timer is pending
  abortedCtrl,       \* per call: attempts whose timeoutController is aborted
  fetchState,        \* per call: the promise returned by fetch
  outcome,           \* per call: what the call settled with
  settled,           \* per call: number of times the call settled
  trace,             \* per call: transport calls and backoff sleeps, in order
  hist,              \* per call: what each attempt's transport settled with
  incs,              \* per call: increments of the counter it performed
  decs,              \* per call: decrements of the counter it performed
  fallback,          \* per call: the code after the loop was executed
  abortedInFlight,   \* per call: external abort arrived while fetch in flight
  defaults,          \* the exported `defaults` object: its headers
  prepared,          \* per call: the locals `data` and `headers`
  sent               \* per call: body and headers given to each fetch call

vars == <<__activeRequests, pc, settings, attempt, userAborted, listeners,
          timers, abortedCtrl, fetchState, outcome, settled, trace, hist, incs, decs, fallback, abortedInFlight,
          defaults, prepared, sent>>

\* ---- values ----
\* Values of `data`, of a body and of a header: kind is "undefined", "null",
\* "FormData" (id names the object), "record" (fields: its properties in
\* order) or "string" (text: its tokens).
Datum(kind, id, fields, text) ==
  [kind |-> kind, id |-> id, fields |-> fields, text |-> text]

Undefined == Datum("undefined", 0, <<>>, <<>>)

Null == Datum("null", 0, <<>>, <<>>)

FormData(id) == Datum("FormData", id, <<>>, <<>>)

Record(fields) == Datum("record", 0, fields, <<>>)

String(text) == Datum("string", 0, <<>>, text)

Field(k, v) == [k |-> k, v |-> v]

\* Payloads a caller passes as `data`: none, two multipart forms, and records
\* without properties, with one, and with one whose value is undefined.
Payloads ==
  {Undefined, FormData(1), FormData(2), Record(<<>>),
   Record(<<Field("a", "1")>>),
   Record(<<Field("a", "1"), Field("b", "undefined")>>),
   Record(<<Field("a", "1"), Field("b", "2")>>)}

Accepts == {"json", "html", "csv"}

HeaderNames == {"Accept", "Content-Type", "X-CSRF-Token"}

\* A Headers object: the value of each header, Undefined if it is not set.
NoHeaders == [h \in HeaderNames |-> Undefined]

\* Values the application gives `defaults.headers`: nothing (the initial
\* value), a CSRF token, or its own Accept and Content-Type.
DefaultHeaders ==
  {NoHeaders,
   [NoHeaders EXCEPT !["X-CSRF-Token"] = String(<<"token">>)],
   [NoHeaders EXCEPT !["Accept"] = String(<<"*/*">>),
                     !["Content-Type"] = String(<<"text/plain">>)]}

NoSettings ==
  [method |-> "GET", hasSignal |-> FALSE, accept |-> "json",
   data |-> Undefined]

\* The settings Spec draws from: the attempt loop reads only method and
\* abortSignal, so accept and data are fixed here; PrepSettingsSet varies them.
SettingsSet ==
  [method : Methods, hasSignal : BOOLEAN, accept : {"json"},
   data : {Undefined}]

\* RequestSettings: only a non-GET call has a data property.
PrepSettingsSet ==
  {s \in [method : Methods, hasSignal : BOOLEAN, accept : Accepts,
          data : Payloads] : s.method = "GET" => s.data = Undefined}

NoPrepared == [body |-> Undefined, headers |-> NoHeaders]

NoResponse == [status |-> 0]

Responses == [status : Statuses]

\* Values a promise or a throw carries: kind is "response" or the error class.
Value(kind, message, response) ==
  [kind |-> kind, message |-> message, response |-> response]

NoFetch == Value("none", "", NoResponse)

Pending == Value("pending", "", NoResponse)

NoOutcome == Value("none", "", NoResponse)

ResponseValue(r) == Value("response", "", r)

DOMAbortError == Value("DOMAbortError", "", NoResponse)

TypeError == Value("TypeError", "", NoResponse)

OtherError == Value("Other", "", NoResponse)

AbortError == Value("AbortError", AbortMessage, NoResponse)

TimeoutError == Value("TimeoutError", TimeoutMessage, NoResponse)

ResponseError(message) == Value("ResponseError", message, NoResponse)

\* Entries of the trace: a call of fetch, a backoff sleep of ms milliseconds.
FetchEvent == [ev |-> "fetch", ms |-> 0]

SleepEvent(ms) == [ev |-> "sleep", ms |-> ms]

\* What the transport can settle with on its own.
TransportResults ==
  {ResponseValue(r) : r \in Responses} \cup {TypeError, OtherError}

\* ---- pure parts of request ----
\* Variant: GET gets one retry only.
maxAttemptsTwo(method) == IF method = "GET" THEN 2 ELSE 1

maxAttempts(method) == IF method = "GET" THEN 3 ELSE 1

\* Variant: the exponent is the incremented attempt index.
backoffNextAttempt(att) == 500 * 2^(att + 1)

\* Variant: the delay does not grow with the attempt index.
backoffConstant(att) == 500

backoff(att) == 500 * 2^att

\* Variant: off-by-one, the last attempt is retried too.
CanRetryOffByOne(att, method) == att < maxAttempts(method) /\ method = "GET"

\* Variant: the retry condition forgets the method.
CanRetryAnyMethod(att, method) == att < 3 - 1

CanRetry(att, method) == att < maxAttempts(method) - 1 /\ method = "GET"

\* Variant: the pre-check is missing.
PreCheckMissing(s, aborted) == FALSE

\* The pre-check at the top of an attempt: the external signal exists and is
\* already aborted.
PreCheck(s, aborted) == s.hasSignal /\ aborted

\* Variant: off-by-one on the server error boundary.
IsServerErrorStrict(status) == status > 500

IsServerError(status) == status >= 500

\* Variant: every 4xx status is treated like 429.
IsRateLimitedAny4xx(status) == status >= 400 /\ status < 500

IsRateLimited(status) == status = 429

\* ---- preparation ----
RECURSIVE Members(_)
\* The members of a JSON object text for the properties in fields, those
\* with an undefined value left out, separated by commas.
Members(fields) ==
  IF fields = <<>> THEN <<>>
  ELSE IF fields[1].v = "undefined" THEN Members(Tail(fields))
  ELSE LET rest == Members(Tail(fields))
       IN  <<fields[1].k, ":", fields[1].v>>
             \o (IF rest = <<>> THEN <<>> ELSE <<",">> \o rest)

\* JSON.stringify(d) for a record or undefined.
JSONStringify(d) ==
  IF d.kind = "undefined" THEN Undefined
  ELSE String(<<"{">> \o Members(d.fields) \o <<"}">>)

\* The value of the local `data`.
PrepareBody(s) ==
  IF s.method = "GET" THEN Null
  ELSE IF s.data.kind = "FormData" THEN s.data
  ELSE JSONStringify(s.data)

\* The value of the local `acceptType`.
acceptType(accept) ==
  CASE accept = "json" -> String(<<"application/json, text/html">>)
    [] accept = "html" -> String(<<"text/html">>)
    [] accept = "csv" -> String(<<"text/csv">>)

\* JavaScript truthiness of a value of `data`.
Truthy(d) ==
  /\ d.kind \notin {"undefined", "null"}
  /\ d.kind = "string" => d.text # <<>>

\* Variant: the FormData test is missing.
NeedsContentTypeAnyData(data) == Truthy(data)

\* The condition under which Content-Type is set.
NeedsContentType(data) == Truthy(data) /\ data.kind # "FormData"

\* The local `headers` once prepared.
PrepareHeaders(defs, s, data) ==
  LET h1 == [defs EXCEPT !["Accept"] = acceptType(s.accept)]
  IN  IF NeedsContentType(data)
      THEN [h1 EXCEPT !["Content-Type"] = String(<<"application/json">>)]
      ELSE h1

\* Variant: the counter is decremented twice on an exit.
DecrementTwice(n) == n - 2

\* Variant: the decrement is forgotten.
DecrementMissing(n) == n

\* --globalThis.__activeRequests
Decrement(n) == n - 1

\* Variant: the timer of an ended attempt is left pending.
ClearTimeoutMissing(ts, att) == ts

\* clearTimeout(timeoutId) for the timer of attempt att.
ClearTimeout(ts, att) == ts \ {att}

\* Variant: the listener of an ended attempt stays registered.
RemoveEventListenerMissing(ls, att) == ls

\* userSignal.removeEventListener("abort", onUserAbort) of attempt att.
RemoveEventListener(ls, att) == ls \ {att}

\* Result of a block: it returns a value, throws a value, or sleeps and
\* continues the loop.
Return(v) == [act |-> "return", val |-> v, ms |-> 0]

Throw(e) == [act |-> "throw", val |-> e, ms |-> 0]

Continue(ms) == [act |-> "continue", val |-> NoOutcome, ms |-> ms]

\* The try block after `await fetch` has settled with res.
TryBlock(res) ==
  IF res.kind = "response"
  THEN IF IsServerError(res.response.status)
       THEN Throw(ResponseError(GenericMessage))
       ELSE IF IsRateLimited(res.response.status)
            THEN Throw(ResponseError(RateLimitMessage))
            ELSE Return(ResponseValue(res.response))
  ELSE Throw(res)

\* Variant: every failure that is not an abort is retried like a TypeError.
CatchBlockRetryAny(e, att, s, aborted) ==
  IF e.kind = "DOMAbortError"
  THEN IF s.hasSignal /\ aborted
       THEN Throw(AbortError)
       ELSE IF CanRetry(att, s.method)
            THEN Continue(backoff(att))
            ELSE Throw(TimeoutError)
  ELSE IF e.kind = "ResponseError"
       THEN Throw(e)
       ELSE IF CanRetry(att, s.method)
            THEN Continue(backoff(att))
            ELSE Throw(ResponseError(GenericMessage))

\* Variant: an unclassified failure is rethrown as it is.
CatchBlockRethrow(e, att, s, aborted) ==
  IF e.kind = "DOMAbortError"
  THEN IF s.hasSignal /\ aborted
       THEN Throw(AbortError)
       ELSE IF CanRetry(att, s.method)
            THEN Continue(backoff(att))
            ELSE Throw(TimeoutError)
  ELSE IF e.kind = "ResponseError"
       THEN Throw(e)
       ELSE IF e.kind = "TypeError" /\ CanRetry(att, s.method)
            THEN Continue(backoff(att))
            ELSE Throw(e)

\* Variant: an abort is always attributed to the timeout.
CatchBlockNoUserCheck(e, att, s, aborted) ==
  IF e.kind = "DOMAbortError"
  THEN IF CanRetry(att, s.method)
       THEN Continue(backoff(att))
       ELSE Throw(TimeoutError)
  ELSE IF e.kind = "ResponseError"
       THEN Throw(e)
       ELSE IF e.kind = "TypeError" /\ CanRetry(att, s.method)
            THEN Continue(backoff(att))
            ELSE Throw(ResponseError(GenericMessage))

\* Variant: a ResponseError thrown in the try block is not rethrown as it is.
CatchBlockNoRethrow(e, att, s, aborted) ==
  IF e.kind = "DOMAbortError"
  THEN IF s.hasSignal /\ aborted
       THEN Throw(AbortError)
       ELSE IF CanRetry(att, s.method)
            THEN Continue(backoff(att))
            ELSE Throw(TimeoutError)
  ELSE IF e.kind = "TypeError" /\ CanRetry(att, s.method)
       THEN Continue(backoff(att))
       ELSE Throw(ResponseError(GenericMessage))

\* The classification in the catch block for the thrown value e.
CatchBlock(e, att, s, aborted) ==
  IF e.kind = "DOMAbortError"
  THEN IF s.hasSignal /\ aborted
       THEN Throw(AbortError)
       ELSE IF CanRetry(att, s.method)
            THEN Continue(backoff(att))
            ELSE Throw(TimeoutError)
  ELSE IF e.kind = "ResponseError"
       THEN Throw(e)
       ELSE IF e.kind = "TypeError" /\ CanRetry(att, s.method)
            THEN Continue(backoff(att))
            ELSE Throw(ResponseError(GenericMessage))

\* One pass through try/catch once the awaited fetch has settled with res.
AttemptResult(res, att, s, aborted) ==
  LET t == TryBlock(res)
  IN  IF t.act = "throw" THEN CatchBlock(t.val, att, s, aborted) ELSE t

\* ---- initial state ----
InitOver(C, defs) ==
  /\ __activeRequests = 0
  /\ defaults = defs
  /\ prepared = [c \in C |-> NoPrepared]
  /\ sent = [c \in C |-> <<>>]
  /\ pc = [c \in C |-> "idle"]
  /\ settings = [c \in C |-> NoSettings]
  /\ attempt = [c \in C |-> 0]
  /\ userAborted = [c \in C |-> FALSE]
  /\ listeners = [c \in C |-> {}]
  /\ timers = [c \in C |-> {}]
  /\ abortedCtrl = [c \in C |-> {}]
  /\ fetchState = [c \in C |-> NoFetch]
  /\ outcome = [c \in C |-> NoOutcome]
  /\ settled = [c \in C |-> 0]
  /\ trace = [c \in C |-> <<>>]
  /\ hist = [c \in C |-> <<>>]
  /\ incs = [c \in C |-> 0]
  /\ decs = [c \in C |-> 0]
  /\ fallback = [c \in C |-> FALSE]
  /\ abortedInFlight = [c \in C |-> FALSE]

Init == InitOver(Calls, NoHeaders)

\* ---- the loop head: `while (attempt < maxAttempts)` up to `await fetch` ----
\* s: the call's settings, att: the value of `attempt`, active: the counter
\* on arrival, ls and ts: listeners and timers left by the code before, tr:
\* the trace so far, prep: the prepared body and headers.
LoopHead(c, s, att, active, ls, ts, tr, prep) ==
  IF att < maxAttempts(s.method)
  THEN IF PreCheck(s, userAborted[c])
       THEN \* pre-check: decrement and throw AbortError
            /\ __activeRequests' = Decrement(active)
            /\ decs' = [decs EXCEPT ![c] = @ + 1]
            /\ pc' = [pc EXCEPT ![c] = "done"]
            /\ outcome' = [outcome EXCEPT ![c] = AbortError]
            /\ settled' = [settled EXCEPT ![c] = @ + 1]
            /\ listeners' = [listeners EXCEPT ![c] = ls]
            /\ timers' = [timers EXCEPT ![c] = ts]
            /\ fetchState' = [fetchState EXCEPT ![c] = NoFetch]
            /\ trace' = [trace EXCEPT ![c] = tr]
            /\ UNCHANGED <<fallback, sent>>
       ELSE \* addEventListener, setTimeout, fetch
            /\ __activeRequests' = active
            /\ listeners' = [listeners EXCEPT
                              ![c] = IF s.hasSignal THEN ls \cup {att} ELSE ls]
            /\ timers' = [timers EXCEPT ![c] = ts \cup {att}]
            /\ fetchState' = [fetchState EXCEPT ![c] = Pending]
            /\ trace' = [trace EXCEPT ![c] = Append(tr, FetchEvent)]
            /\ sent' = [sent EXCEPT ![c] = Append(@, prep)]
            /\ pc' = [pc EXCEPT ![c] = "fetching"]
            /\ UNCHANGED <<decs, outcome, settled, fallback>>
  ELSE \* the loop ended without returning: decrement and throw
       /\ __activeRequests' = Decrement(active)
       /\ decs' = [decs EXCEPT ![c] = @ + 1]
       /\ pc' = [pc EXCEPT ![c] = "done"]
       /\ outcome' = [outcome EXCEPT ![c] = ResponseError(GenericMessage)]
       /\ settled' = [settled EXCEPT ![c] = @ + 1]
       /\ fallback' = [fallback EXCEPT ![c] = TRUE]
       /\ listeners' = [listeners EXCEPT ![c] = ls]
       /\ timers' = [timers EXCEPT ![c] = ts]
       /\ fetchState' = [fetchState EXCEPT ![c] = NoFetch]
       /\ trace' = [trace EXCEPT ![c] = tr]
       /\ UNCHANGED sent

\* Controllers no timer, listener or transport call refers to any more.
Reachable(ctrl, ls, ts) == {k \in ctrl : k \in ls \cup ts}

\* ---- actions of a call ----
\* request(settings) is called: entry, then the first loop head.
Request(c, s) ==
  /\ pc[c] = "idle"
  /\ userAborted[c] => s.hasSignal
  /\ settings' = [settings EXCEPT ![c] = s]
  /\ incs' = [incs EXCEPT ![c] = @ + 1]
  /\ attempt' = [attempt EXCEPT ![c] = 0]
  /\ LET data == PrepareBody(s)
         prep == [body |-> data,
                  headers |-> PrepareHeaders(defaults, s, data)]
     IN  /\ prepared' = [prepared EXCEPT ![c] = prep]
         /\ LoopHead(c, s, 0, __activeRequests + 1, listeners[c], timers[c],
                     trace[c], prep)
  /\ UNCHANGED <<userAborted, abortedCtrl, hist, abortedInFlight, defaults>>

\* The continuation of `await fetch`: cleanup, classification, and either
\* the end of the call or the start of the backoff sleep.
Resume(c) ==
  /\ pc[c] = "fetching"
  /\ fetchState[c].kind \notin {"none", "pending"}
  /\ LET s == settings[c]
         att == attempt[c]
         r == AttemptResult(fetchState[c], att, s, userAborted[c])
         ls == RemoveEventListener(listeners[c], att)
         ts == ClearTimeout(timers[c], att)
     IN  /\ hist' = [hist EXCEPT ![c] = Append(@, fetchState[c])]
         /\ listeners' = [listeners EXCEPT ![c] = ls]
         /\ timers' = [timers EXCEPT ![c] = ts]
         /\ abortedCtrl' = [abortedCtrl EXCEPT ![c] = Reachable(@, ls, ts)]
         /\ fetchState' = [fetchState EXCEPT ![c] = NoFetch]
         /\ IF r.act = "continue"
            THEN /\ pc' = [pc EXCEPT ![c] = "sleeping"]
                 /\ trace' = [trace EXCEPT ![c] = Append(@, SleepEvent(r.ms))]
                 /\ UNCHANGED <<outcome, settled>>
            ELSE /\ pc' = [pc EXCEPT ![c] = "done"]
                 /\ outcome' = [outcome EXCEPT ![c] = r.val]
                 /\ settled' = [settled EXCEPT ![c] = @ + 1]
                 /\ UNCHANGED trace
  /\ UNCHANGED <<__activeRequests, settings, attempt, userAborted, incs,
                 decs, fallback, abortedInFlight, defaults, prepared, sent>>

\* The continuation of `await sleep(backoff)`: attempt += 1; continue.
WakeUp(c) ==
  /\ pc[c] = "sleeping"
  /\ attempt' = [attempt EXCEPT ![c] = @ + 1]
  /\ LoopHead(c, settings[c], attempt[c] + 1, __activeRequests,
              listeners[c], timers[c], trace[c], prepared[c])
  /\ UNCHANGED <<settings, userAborted, abortedCtrl, hist, incs,
                 abortedInFlight, defaults, prepared>>

\* ---- actions of the environment ----
\* Variant: one controller at module level is shared by all calls, so that
\* an abort rejects every pending transport call.
AbortControllersShared(c, ks) ==
  /\ abortedCtrl' = [d \in DOMAIN abortedCtrl |->
                       IF ks = {} THEN abortedCtrl[d]
                       ELSE abortedCtrl[d] \cup {attempt[d]}]
  /\ fetchState' = [d \in DOMAIN fetchState |->
                      IF ks # {} /\ fetchState[d] = Pending
                      THEN DOMAbortError ELSE fetchState[d]]

\* Variant: fetch is not given the controller's signal, so that an abort
\* does not reject it.
AbortControllersNoSignal(c, ks) ==
  /\ abortedCtrl' = [abortedCtrl EXCEPT ![c] = @ \cup ks]
  /\ UNCHANGED fetchState

\* timeoutController.abort() for the controllers of the attempts in ks, each
\* unless already aborted; the transport call using the signal of one of
\* them rejects if it is still pending.
AbortControllers(c, ks) ==
  /\ abortedCtrl' = [abortedCtrl EXCEPT ![c] = @ \cup ks]
  /\ fetchState' = [fetchState EXCEPT
                     ![c] = IF /\ attempt[c] \in ks \ abortedCtrl[c]
                               /\ @ = Pending
                            THEN DOMAbortError ELSE @]

\* The transport settles on its own: a response or a failure.
FetchSettles(c, res) ==
  /\ pc[c] = "fetching"
  /\ fetchState[c] = Pending
  /\ fetchState' = [fetchState EXCEPT ![c] = res]
  /\ UNCHANGED <<__activeRequests, pc, settings, attempt, userAborted,
                 listeners, timers, abortedCtrl, outcome, settled, trace,
                 hist, incs, decs, fallback, abortedInFlight, defaults,
                 prepared, sent>>

\* The timeout timer of attempt k expires and runs its callback.
TimerFires(c, k) ==
  /\ k \in timers[c]
  /\ timers' = [timers EXCEPT ![c] = @ \ {k}]
  /\ AbortControllers(c, {k})
  /\ UNCHANGED <<__activeRequests, pc, settings, attempt, userAborted,
                 listeners, outcome, settled, trace, hist, incs,
                 decs, fallback, abortedInFlight, defaults, prepared, sent>>

\* The owner of the external signal aborts it: the abort event is dispatched
\* once, to the listeners registered at that moment.
UserAbort(c) ==
  /\ ~userAborted[c]
  /\ pc[c] = "idle" \/ settings[c].hasSignal
  /\ userAborted' = [userAborted EXCEPT ![c] = TRUE]
  /\ abortedInFlight' = [abortedInFlight EXCEPT
                          ![c] = pc[c] = "fetching" /\
                                 fetchState[c] \in {Pending, DOMAbortError}]
  /\ AbortControllers(c, listeners[c])
  /\ UNCHANGED <<__activeRequests, pc, settings, attempt, listeners, timers,
                 outcome, settled, trace, hist, incs, decs, fallback,
                 defaults, prepared, sent>>

Next ==
  \E c \in Calls :
    \/ \E s \in SettingsSet : Request(c, s)
    \/ Resume(c)
    \/ WakeUp(c)
    \/ \E res \in TransportResults : FetchSettles(c, res)
    \/ \E k \in timers[c] : TimerFires(c, k)
    \/ UserAbort(c)

Spec == Init /\ [][Next]_vars

\* ---- one call with every accept, payload and default headers ----
\* Preparation happens within a call and reads nothing of other calls, so
\* this specification has the single call 1.
InitPrep == \E defs \in DefaultHeaders : InitOver({1}, defs)

NextPrep ==
  \/ \E s \in PrepSettingsSet : Request(1, s)
  \/ Resume(1)
  \/ WakeUp(1)
  \/ \E res \in TransportResults : FetchSettles(1, res)
  \/ \E k \in timers[1] : TimerFires(1, k)
  \/ UserAbort(1)

SpecPrep == InitPrep /\ [][NextPrep]_vars

\* ---- concurrent calls ----
\* Calls that are in flight together.  To keep three such calls within
\* reach, they are GET or POST calls with an external signal, and the
\* transport answers 200 or 503 or not at all.
ConcSettingsSet ==
  {s \in SettingsSet : s.method \in {"GET", "POST"} /\ s.hasSignal}

ConcResults == {ResponseValue([status |-> 200]), ResponseValue([status |-> 503])}

InitConc == InitOver(ConcCalls, NoHeaders)

NextConc ==
  \E c \in ConcCalls :
    \/ \E s \in ConcSettingsSet : Request(c, s)
    \/ Resume(c)
    \/ WakeUp(c)
    \/ \E res \in ConcResults : FetchSettles(c, res)
    \/ \E k \in timers[c] : TimerFires(c, k)
    \/ UserAbort(c)

SpecConc == InitConc /\ [][NextConc]_vars

\* ---- scheduling ----
\* The event loop runs every continuation that is ready, a timer that is
\* not cleared expires, and a sleep ends.  Nothing obliges the transport to
\* answer on its own or the owner of the external signal to abort it.
\* Whether a call settles depends on its own steps only, so the fair
\* specification is that of the single call 1.
Fairness ==
  /\ WF_vars(Resume(1))
  /\ WF_vars(WakeUp(1))
  /\ WF_vars(\E k \in timers[1] : TimerFires(1, k))

SpecLive == SpecPrep /\ Fairness

\* ---- derived observations ----
IsFetch(e) == e.ev = "fetch"

IsSleep(e) == e.ev = "sleep"

\* Number of transport calls a call has issued.
Fetches(c) == Len(SelectSeq(trace[c], IsFetch))

\* The backoff sleeps of a call, in order.
Sleeps(c) == SelectSeq(trace[c], IsSleep)

Last(q) == q[Len(q)]

\* The call has had an attempt's transport settle, last with a response
\* whose status is in S.
LastResponseIn(c, S) ==
  /\ hist[c] # <<>>
  /\ Last(hist[c]).kind = "response"
  /\ Last(hist[c]).response.status \in S

\* The last settled attempt was the last step of the call: it is done, and
\* no sleep and no transport call followed that attempt.
EndedAtLastAttempt(c) ==
  /\ pc[c] = "done"
  /\ Fetches(c) = Len(hist[c])
  /\ Len(Sleeps(c)) = Len(hist[c]) - 1
  /\ Last(trace[c]) = FetchEvent

Outcomes ==
  {ResponseValue(r) : r \in Responses}
    \cup {AbortError, TimeoutError, ResponseError(GenericMessage),
          ResponseError(RateLimitMessage)}

\* ---- claims ----

\* C1: once a call has settled, the counter __activeRequests has the value it
\* had before the call: the call's increment is matched by one decrement of
\* its own, so that the counter is 0 when no call is in flight.
C1_CounterRestored ==
  /\ \A c \in DOMAIN pc : pc[c] = "done" => decs[c] = incs[c]
  /\ (\A c \in DOMAIN pc : pc[c] \in {"idle", "done"}) => __activeRequests = 0

C3_TwoFailuresThenSuccess ==
  \A c \in DOMAIN pc :
    ( /\ pc[c] = "done"
      /\ settings[c].method = "GET"
      /\ ~userAborted[c]
      /\ Len(hist[c]) = 3
      /\ hist[c][1] = TypeError
      /\ hist[c][2] = TypeError
      /\ LastResponseIn(c, {200, 404}) )
    => /\ outcome[c] = hist[c][3]
       /\ trace[c] = <<FetchEvent, SleepEvent(500), FetchEvent,
                       SleepEvent(1000), FetchEvent>>

C3_Witness ==
  \E c \in DOMAIN pc :
    /\ pc[c] = "done"
    /\ settings[c].method = "GET"
    /\ ~userAborted[c]
    /\ hist[c] = <<TypeError, TypeError, ResponseValue([status |-> 200])>>
    /\ outcome[c] = ResponseValue([status |-> 200])

\* C4: a POST, PUT, PATCH or DELETE call invokes the transport at most once
\* and never sleeps; once its transport call has failed the call has failed.
C4_NonGetSingleAttempt ==
  \A c \in DOMAIN pc :
    (pc[c] # "idle" /\ settings[c].method # "GET")
    => /\ Fetches(c) <= 1
       /\ Sleeps(c) = <<>>
       /\ Len(hist[c]) <= 1
       /\ (hist[c] # <<>> /\ Last(hist[c]).kind # "response")
          => /\ pc[c] = "done"
             /\ outcome[c] \in {AbortError, TimeoutError,
                                ResponseError(GenericMessage)}

C4_Witness ==
  \E c \in DOMAIN pc :
    /\ pc[c] = "done"
    /\ settings[c].method = "POST"
    /\ hist[c] = <<TypeError>>
    /\ outcome[c] = ResponseError(GenericMessage)

\* C5: a call made with an already aborted signal fails with AbortError in
\* its first synchronous segment, without a transport call, a timer or a
\* listener, and leaves the counter as it found it.
C5_AlreadyAborted ==
  [][\A c \in DOMAIN pc :
       (pc[c] = "idle" /\ pc'[c] # "idle" /\ userAborted[c])
       => /\ pc'[c] = "done"
          /\ outcome'[c] = AbortError
          /\ trace'[c] = <<>>
          /\ timers'[c] = {}
          /\ listeners'[c] = {}
          /\ __activeRequests' = __activeRequests
          /\ incs'[c] = decs'[c]]_vars

C5_Witness ==
  \E c \in DOMAIN pc :
    /\ pc[c] = "done"
    /\ userAborted[c]
    /\ attempt[c] = 0
    /\ trace[c] = <<>>
    /\ outcome[c] = AbortError
    /\ incs[c] = 1
    /\ decs[c] = 1

\* C6: if the external signal is aborted while a transport call is in flight
\* (the timer having fired before or not), the transport call rejects, the
\* call issues no further transport call and no sleep, and it fails with
\* AbortError.
C6_AbortInFlight ==
  \A c \in DOMAIN pc :
    abortedInFlight[c]
    => /\ pc[c] \in {"fetching", "done"}
       /\ pc[c] = "fetching" => fetchState[c] = DOMAbortError
       /\ pc[c] = "done" => outcome[c] = AbortError /\ EndedAtLastAttempt(c)
       /\ Fetches(c) = attempt[c] + 1

C6_Witness ==
  \E c \in DOMAIN pc :
    /\ abortedInFlight[c]
    /\ pc[c] = "done"
    /\ settings[c].method = "GET"
    /\ attempt[c] = 1
    /\ timers[c] = {}
    /\ outcome[c] = AbortError

\* C7: TimeoutError is the outcome of a timed-out attempt of a call whose
\* signal is not aborted: for a non-GET call the only attempt, for a GET call
\* the third attempt and no earlier one; it is never produced while the
\* external signal is aborted.
C7_TimeoutState ==
  \A c \in DOMAIN pc :
    /\ outcome[c] = TimeoutError
       => /\ Last(hist[c]) = DOMAbortError
          /\ EndedAtLastAttempt(c)
          /\ settings[c].method # "GET" => Fetches(c) = 1
          /\ settings[c].method = "GET" => attempt[c] = 2 /\ Fetches(c) = 3
    /\ ( /\ hist[c] # <<>>
         /\ Last(hist[c]) = DOMAbortError
         /\ ~userAborted[c] )
       => /\ settings[c].method # "GET"
             => pc[c] = "done" /\ outcome[c] = TimeoutError
          /\ settings[c].method = "GET"
             => /\ (pc[c] = "done") <=> (Len(hist[c]) = 3)
                /\ pc[c] = "done" => outcome[c] = TimeoutError

C7_Timeout ==
  /\ []C7_TimeoutState
  /\ [][\A c \in DOMAIN pc :
          (outcome[c] # TimeoutError /\ outcome'[c] = TimeoutError)
          => ~userAborted'[c]]_vars

C7_Witness ==
  \E c \in DOMAIN pc :
    /\ outcome[c] = TimeoutError
    /\ settings[c].method = "GET"
    /\ settings[c].hasSignal
    /\ hist[c] = <<DOMAbortError, DOMAbortError, DOMAbortError>>

\* C8: when an attempt's transport returns a status >= 500 the call has
\* failed with ResponseError("Something went wrong."), with no sleep and no
\* transport call after that attempt, whatever the method and the attempt.
C8_ServerError ==
  \A c \in DOMAIN pc :
    LastResponseIn(c, {500, 503})
    => /\ outcome[c] = ResponseError("Something went wrong.")
       /\ EndedAtLastAttempt(c)

C8_Witness ==
  \E c \in DOMAIN pc :
    /\ LastResponseIn(c, {500})
    /\ settings[c].method = "GET"
    /\ Len(hist[c]) = 2
    /\ pc[c] = "done"

\* C9: when an attempt's transport returns status 429 the call has failed
\* with ResponseError carrying the rate limit message, with no sleep and no
\* transport call after that attempt, whatever the method.
C9_RateLimited ==
  \A c \in DOMAIN pc :
    LastResponseIn(c, {429})
    => /\ outcome[c] =
            ResponseError(
              "Something went wrong, please try again after some time.")
       /\ EndedAtLastAttempt(c)

C9_Witness ==
  \E c \in DOMAIN pc :
    /\ LastResponseIn(c, {429})
    /\ settings[c].method = "GET"
    /\ Len(hist[c]) = 3
    /\ pc[c] = "done"

\* C10: when an attempt's transport returns a status below 500 other than
\* 429 the call has returned that very response, and no sleep and no
\* transport call followed.
C10_ResponseReturned ==
  \A c \in DOMAIN pc :
    LastResponseIn(c, {200, 404})
    => /\ outcome[c] = Last(hist[c])
       /\ outcome[c].kind = "response"
       /\ EndedAtLastAttempt(c)

C10_Witness ==
  \E c \in DOMAIN pc :
    /\ LastResponseIn(c, {404})
    /\ settings[c].method = "DELETE"
    /\ pc[c] = "done"
    /\ outcome[c] = ResponseValue([status |-> 404])

\* C12: a transport call after the first is issued only by a GET call, after
\* an attempt of index below 2 that ended in a TypeError or in an abort
\* classified while the external signal was not aborted; every other failure
\* ends the call with that attempt, an unclassified one as the generic
\* ResponseError, an externally aborted one as AbortError.
C12_RetryState ==
  \A c \in DOMAIN pc :
    /\ \A i \in 1..Len(hist[c]) :
         i < Fetches(c)
         => /\ settings[c].method = "GET"
            /\ i - 1 < 2
            /\ hist[c][i] \in {TypeError, DOMAbortError}
    /\ ( /\ hist[c] # <<>>
         /\ \/ Last(hist[c]).kind \notin {"TypeError", "DOMAbortError"}
            \/ settings[c].method # "GET"
            \/ Len(hist[c]) = 3 )
       => EndedAtLastAttempt(c)
    /\ (hist[c] # <<>> /\ Last(hist[c]) = OtherError)
       => outcome[c] = ResponseError("Something went wrong.")

C12_OnlyRetryable ==
  /\ []C12_RetryState
  /\ [][\A c \in DOMAIN pc :
          /\ (Fetches(c)' > Fetches(c) /\ Fetches(c) > 0)
             => /\ pc[c] = "sleeping"
                /\ ~userAborted[c]
                /\ Last(hist[c]) \in {TypeError, DOMAbortError}
          /\ ( /\ Len(hist'[c]) > Len(hist[c])
               /\ Last(hist'[c]) = DOMAbortError
               /\ userAborted[c] )
             => pc'[c] = "done" /\ outcome'[c] = AbortError]_vars

C12_Witness ==
  \E c \in DOMAIN pc :
    /\ pc[c] = "fetching"
    /\ settings[c].method = "GET"
    /\ attempt[c] = 2
    /\ hist[c] = <<DOMAbortError, TypeError>>

RECURSIVE SumMs(_)
\* Total of the ms fields of a sequence of trace entries.
SumMs(q) == IF q = <<>> THEN 0 ELSE q[1].ms + SumMs(Tail(q))

\* C13: a call invokes the transport at most 3 times; its trace alternates
\* transport calls and sleeps, the sleep after attempt 0 being 500 ms and the
\* one after attempt 1 1000 ms; every sleep follows an attempt of index
\* below 2 that failed with a TypeError or an abort, and is followed by the
\* next attempt, which either calls the transport or fails at its pre-check;
\* a GET call whose three attempts fail with TypeError ends in ResponseError
\* after 3 transport calls and two sleeps totalling 1500 ms.
C13_BackoffSchedule ==
  \A c \in DOMAIN pc :
    /\ Fetches(c) <= 3
    /\ Len(trace[c]) <= 5
    /\ \A j \in 1..Len(trace[c]) :
         trace[c][j] = IF j % 2 = 1 THEN FetchEvent
                       ELSE IF j = 2 THEN SleepEvent(500)
                       ELSE SleepEvent(1000)
    /\ \A k \in 1..Len(Sleeps(c)) :
         /\ k <= Len(hist[c])
         /\ k <= 2
         /\ hist[c][k] \in {TypeError, DOMAbortError}
    /\ (pc[c] = "done" /\ trace[c] # <<>> /\ Last(trace[c]) # FetchEvent)
       => outcome[c] = AbortError /\ userAborted[c]
    /\ hist[c] = <<TypeError, TypeError, TypeError>>
       => /\ pc[c] = "done"
          /\ outcome[c] = ResponseError("Something went wrong.")
          /\ Fetches(c) = 3
          /\ Len(Sleeps(c)) = 2
          /\ SumMs(Sleeps(c)) = 1500

C13_Witness ==
  \E c \in DOMAIN pc :
    /\ hist[c] = <<TypeError, TypeError, TypeError>>
    /\ settings[c].method = "GET"
    /\ outcome[c] = ResponseError(GenericMessage)
    /\ SumMs(trace[c]) = 1500

\* C14: a call has at most one transport call outstanding, one pending timer
\* and one registered listener, all of the current attempt and only while
\* that attempt's transport call is awaited; during a backoff and after the
\* call has settled none is left.
C14_AttemptScoped ==
  \A c \in DOMAIN pc :
    /\ Cardinality(timers[c]) <= 1
    /\ Cardinality(listeners[c]) <= 1
    /\ timers[c] \subseteq {attempt[c]}
    /\ listeners[c] \subseteq {attempt[c]}
    /\ abortedCtrl[c] \subseteq {attempt[c]}
    /\ pc[c] = "fetching"
       => /\ fetchState[c] # NoFetch
          /\ Fetches(c) = Len(hist[c]) + 1
          /\ listeners[c] = IF settings[c].hasSignal THEN {attempt[c]} ELSE {}
    /\ pc[c] # "fetching"
       => /\ timers[c] = {}
          /\ listeners[c] = {}
          /\ abortedCtrl[c] = {}
          /\ fetchState[c] = NoFetch
          /\ Fetches(c) = Len(hist[c])

C14_Witness ==
  \E c \in DOMAIN pc :
    /\ pc[c] = "fetching"
    /\ attempt[c] = 1
    /\ timers[c] = {1}
    /\ listeners[c] = {1}
    /\ fetchState[c] = Pending

\* C15: no transport call is issued while the external signal is aborted;
\* a call that reads the signal as aborted, at a pre-check or when it
\* classifies an aborted attempt, fails with AbortError in that step without
\* a further transport call, and stays that way.
C15_CancellationNotRetried ==
  /\ [](\A c \in DOMAIN pc :
          outcome[c] = AbortError => pc[c] = "done" /\ userAborted[c])
  /\ [][\A c \in DOMAIN pc :
          /\ Fetches(c)' > Fetches(c) => ~userAborted[c]
          /\ ( /\ userAborted[c]
               /\ pc'[c] # pc[c]
               /\ \/ pc[c] \in {"idle", "sleeping"}
                  \/ pc[c] = "fetching" /\ fetchState[c] = DOMAbortError )
             => /\ pc'[c] = "done"
                /\ outcome'[c] = AbortError
                /\ trace'[c] = trace[c]
          /\ outcome[c] = AbortError
             => outcome'[c] = AbortError /\ trace'[c] = trace[c]]_vars

C15_Witness ==
  \E c \in DOMAIN pc :
    /\ outcome[c] = AbortError
    /\ Fetches(c) = 2
    /\ Len(hist[c]) = 2
    /\ Last(hist[c]) = DOMAbortError

\* C18: an abort of the external signal during a backoff sleep finds no
\* listener and does not settle the call; the call settles when the sleep
\* ends, with AbortError at the pre-check, with no further transport call
\* and one decrement of the counter.
C18_AbortDuringBackoff ==
  [][\A c \in DOMAIN pc :
       /\ (pc[c] = "sleeping" /\ ~userAborted[c] /\ userAborted'[c])
          => /\ listeners[c] = {}
             /\ pc'[c] = "sleeping"
             /\ outcome'[c] = NoOutcome
       /\ (pc[c] = "sleeping" /\ userAborted[c] /\ pc'[c] # "sleeping")
          => /\ pc'[c] = "done"
             /\ outcome'[c] = AbortError
             /\ trace'[c] = trace[c]
             /\ decs'[c] = decs[c] + 1
             /\ decs'[c] = 1
             /\ __activeRequests' = __activeRequests - 1]_vars

C18_Witness ==
  \E c \in DOMAIN pc :
    /\ pc[c] = "done"
    /\ outcome[c] = AbortError
    /\ trace[c] # <<>>
    /\ Last(trace[c]) = SleepEvent(1000)
    /\ Last(hist[c]) = DOMAbortError
    /\ decs[c] = 1

\* C20: the code after the attempt loop is never executed: the loop variable
\* of a running call stays below its maximum number of attempts.
C20_FallbackUnreachable ==
  \A c \in DOMAIN pc :
    /\ ~fallback[c]
    /\ attempt[c] < (IF settings[c].method = "GET" THEN 3 ELSE 1)

C20_Witness ==
  \E c \in DOMAIN pc :
    /\ pc[c] = "done"
    /\ attempt[c] = 2
    /\ hist[c] = <<TypeError, DOMAbortError, TypeError>>
    /\ ~fallback[c]

\* The JSON text of the record payloads, written out; no text for a value
\* that is not a record.
JsonTextOf(d) ==
  CASE d = Record(<<>>) -> <<"{", "}">>
    [] d = Record(<<Field("a", "1")>>) -> <<"{", "a", ":", "1", "}">>
    [] d = Record(<<Field("a", "1"), Field("b", "undefined")>>)
         -> <<"{", "a", ":", "1", "}">>
    [] d = Record(<<Field("a", "1"), Field("b", "2")>>)
         -> <<"{", "a", ":", "1", ",", "b", ":", "2", "}">>
    [] OTHER -> <<>>

\* The Accept header for each value of accept, written out.
AcceptOf(accept) ==
  CASE accept = "json" -> String(<<"application/json, text/html">>)
    [] accept = "html" -> String(<<"text/html">>)
    [] accept = "csv" -> String(<<"text/csv">>)

\* The headers of init i are the default headers with Accept replaced by the
\* mapped value and with Content-Type: application/json exactly when the
\* body is a JSON text.
HeadersAsClaimed(c, i) ==
  LET h == sent[c][i].headers
      b == sent[c][i].body
  IN  /\ h["Accept"] = AcceptOf(settings[c].accept)
      /\ h["X-CSRF-Token"] = defaults["X-CSRF-Token"]
      /\ h["Content-Type"] =
           IF b.kind = "string" THEN String(<<"application/json">>)
           ELSE defaults["Content-Type"]
      /\ (settings[c].method = "GET" \/ settings[c].data.kind = "FormData")
         => h["Content-Type"] = defaults["Content-Type"]

\* C11 as stated: every fetch of a call gets the same body and headers; the
\* body is null for GET, the FormData itself for a non-GET call with
\* multipart data and the JSON text of the payload otherwise; the headers
\* are as claimed.
C11_AsStated ==
  \A c \in DOMAIN pc :
    \A i \in 1..Len(sent[c]) :
      /\ sent[c][i] = prepared[c]
      /\ sent[c][i].body =
           IF settings[c].method = "GET" THEN Null
           ELSE IF settings[c].data.kind = "FormData" THEN settings[c].data
           ELSE String(JsonTextOf(settings[c].data))
      /\ HeadersAsClaimed(c, i)

\* C11, amended: every fetch of a call gets the same body and headers; the
\* body is null for GET, the FormData itself for a non-GET call with
\* multipart data, the JSON text of the payload for a non-GET call with a
\* record payload, and undefined for a non-GET call without data; the
\* headers are as claimed.
C11_Preparation ==
  \A c \in DOMAIN pc :
    \A i \in 1..Len(sent[c]) :
      /\ sent[c][i] = prepared[c]
      /\ sent[c][i].body =
           IF settings[c].method = "GET" THEN Null
           ELSE IF settings[c].data.kind = "FormData" THEN settings[c].data
           ELSE IF settings[c].data.kind = "record"
                THEN String(JsonTextOf(settings[c].data))
                ELSE Undefined
      /\ HeadersAsClaimed(c, i)

C11_Witness ==
  \E c \in DOMAIN pc :
    /\ settings[c].method = "POST"
    /\ settings[c].accept = "csv"
    /\ settings[c].data = Record(<<Field("a", "1"), Field("b", "undefined")>>)
    /\ defaults["Content-Type"] = String(<<"text/plain">>)
    /\ Len(sent[c]) = 1
    /\ sent[c][1].body = String(<<"{", "a", ":", "1", "}">>)
    /\ sent[c][1].headers["Content-Type"] = String(<<"application/json">>)
    /\ sent[c][1].headers["Accept"] = String(<<"text/csv">>)

\* C17: every call that has been made eventually settles, and it does so
\* within 3 transport calls and 2 backoff sleeps, whether or not the
\* transport ever answers on its own.
C17_EventuallySettles ==
  /\ \A c \in {1} : (pc[c] # "idle") ~> (pc[c] = "done")
  /\ [](\A c \in DOMAIN pc : Fetches(c) <= 3 /\ Len(Sleeps(c)) <= 2)

C17_Witness ==
  \E c \in DOMAIN pc :
    /\ pc[c] = "done"
    /\ hist[c] = <<DOMAbortError, DOMAbortError, DOMAbortError>>
    /\ Fetches(c) = 3
    /\ Len(Sleeps(c)) = 2
    /\ ~userAborted[c]
    /\ ~settings[c].hasSignal

\* Everything a call owns: its locals, its timers and listeners, its
\* transport call, its external signal and what is recorded about it.
Local(c) ==
  <<pc[c], settings[c], attempt[c], userAborted[c], listeners[c], timers[c],
    abortedCtrl[c], fetchState[c], outcome[c], settled[c], trace[c], hist[c],
    incs[c], decs[c], fallback[c], abortedInFlight[c], prepared[c], sent[c]>>

\* The outcome of a settled call as a function of its own method, of what
\* its own transport calls settled with, and of whether its own signal was
\* aborted while a transport call was in flight.
OutcomeAlone(s, h, inFlight) ==
  IF h = <<>> THEN AbortError
  ELSE LET last == Last(h)
           more == s.method = "GET" /\ Len(h) < 3
       IN  CASE last.kind = "response" ->
                  IF last.response.status >= 500
                  THEN ResponseError("Something went wrong.")
                  ELSE IF last.response.status = 429
                  THEN ResponseError(
                    "Something went wrong, please try again after some time.")
                  ELSE last
             [] last.kind = "DOMAbortError" ->
                  IF inFlight \/ more THEN AbortError ELSE TimeoutError
             [] last.kind = "TypeError" ->
                  IF more THEN AbortError
                  ELSE ResponseError("Something went wrong.")
             [] OTHER -> ResponseError("Something went wrong.")

\* C16: in any interleaving of calls, a step changes what one call owns and
\* possibly the counter, never what another call owns nor `defaults`; the
\* outcome of a settled call and its number of transport calls are the same
\* function of what the call owns, whatever the other calls did.
C16_Independent ==
  /\ [](\A c \in DOMAIN pc :
          pc[c] = "done"
          => /\ outcome[c] =
                  OutcomeAlone(settings[c], hist[c], abortedInFlight[c])
             /\ Fetches(c) = Len(hist[c]))
  /\ [][/\ Cardinality({c \in DOMAIN pc : Local(c)' # Local(c)}) <= 1
        /\ defaults' = defaults]_vars

C16_Witness ==
  \E c, d \in DOMAIN pc :
    /\ c # d
    /\ pc[c] = "done"
    /\ outcome[c] = TimeoutError
    /\ pc[d] = "fetching"
    /\ attempt[d] = 1
    /\ userAborted[d]
    /\ fetchState[d] = DOMAbortError
    /\ __activeRequests = 2

RECURSIVE NetIncrements(_)
\* Increments minus decrements performed by the calls in S.
NetIncrements(S) ==
  IF S = {} THEN 0
  ELSE LET c == CHOOSE x \in S : TRUE
       IN  incs[c] - decs[c] + NetIncrements(S \ {c})

\* Calls that have been entered and have not settled.
InFlight == {c \in DOMAIN pc : pc[c] \in {"fetching", "sleeping"}}

\* C19: no call decrements the counter more than once or more often than
\* it incremented it; the counter is the increments minus the decrements of
\* all calls, at least the number of calls in flight, and never negative.
C19_CounterCoversInFlight ==
  /\ \A c \in DOMAIN pc : decs[c] <= 1 /\ decs[c] <= incs[c]
  /\ __activeRequests = NetIncrements(DOMAIN pc)
  /\ __activeRequests >= Cardinality(InFlight)
  /\ __activeRequests >= 0
  /\ InFlight # {} => __activeRequests # 0

C19_Witness ==
  \E c, d \in DOMAIN pc :
    /\ c # d
    /\ pc[c] = "done"
    /\ decs[c] = 1
    /\ trace[c] # <<>>
    /\ Last(trace[c]) = SleepEvent(500)
    /\ pc[d] = "sleeping"
    /\ __activeRequests = 1

====
